---- MODULE Spec2Model ----
(***************************************************************************)
(* Model of scripts/setup/setup.py: the prepare-genesis orchestrator.      *)
(* One run of run() is a sequential process; pc is its position.  The      *)
(* external commands (rm, git, make, seid) are opaque: each either exits   *)
(* zero or non-zero, chosen nondeterministically within what the disk and  *)
(* keyring allow, and every invocation is recorded in calls.               *)
(***************************************************************************)
EXTENDS Integers, Sequences, FiniteSets, TLC

\* ------------------------------------------------------------------ bounds
\* Clock instants 0..MaxTick; TicksPerSecond instants share one second.
MaxTick == 3
TicksPerSecond == 2

\* ------------------------------------------------------- program constants
SEI_ROOT_DIR == "~/.sei"
SEI_CONFIG_DIR == "~/.sei/config"
SEI_CONFIG_TOML_PATH == "~/.sei/config/config.toml"
PREPARE_GENESIS == "prepare-genesis"
SETUP_ORACLE == "setup-oracle"
DEFAULT_VALIDATOR_ACC_NAME == "admin"
STARTING_BALANCE == "100000000sei"
STARTING_DELEGATION == "10000sei"

\* ------------------------------------------------------------ input domains
\* "" stands for an option that is absent or empty: both are falsy in Python.
ChainIds == {"", "test-1"}
Monikers == {"", "node0"}
Versions == {"", "v1"}
Endpoints == {"", "tcp://p2p"}
Passwords == {"pw1", "pw2"}
Addresses == {"sei1a", "sei1b"}
Mnemonics == {"abandon zoo"}
AccountNames == {"admin", "alice", "bob"}
Ticks == 0..MaxTick

VARIABLES
    args,           \* the parsed command line (argparse Namespace)
    pc,             \* position of the run
    exc,            \* exception in flight, "none" when there is none
    now,            \* instant datetime.now() returns in cleanup_sei
    cwd,            \* current working directory of the process
    sei_root,       \* the directory ~/.sei on disk
    backups,        \* the directories ~/.sei_backup_<stamp> on disk
    keyring,        \* names of the keys the seid keyring holds
    account_cache,  \* the module-level dict account_cache
    key_password,   \* local key_password of seid_add_key
    add_key_output, \* local add_key_output of seid_add_key
    address,        \* address returned by seid_add_key
    account_name,   \* the account_name argument of lines 165-166
    calls,          \* every command handed to subprocess.check_output
    summary_lines,  \* number of "Unable to run <action>" lines logged
    exit_status,    \* how the process ended: "running", "exit0", "exit1"
    disk0           \* the disk as the run found it (history; no step of
                    \* the run reads it)

vars == <<args, pc, exc, now, cwd, sei_root, backups, keyring, account_cache,
          key_password, add_key_output, address, account_name, calls,
          summary_lines, exit_status, disk0>>

disk == <<sei_root, backups, keyring, cwd>>
locals == <<key_password, add_key_output, address, account_name>>

\* --------------------------------------------------------------- the disk
\* A directory tree ~/.sei: whether it exists and what the run can observe
\* of it.  key_info maps an account name to the content of
\* config/<name>_key_info.txt.
NoFiles == [n \in {} |-> ""]

NoDir == [exists |-> FALSE, config_dir |-> FALSE, config_toml |-> FALSE,
          key_info |-> NoFiles, genesis_accounts |-> {}, gentxs |-> {}]

\* What `seid init` leaves: config/ with config.toml and a default genesis.
FreshDir == [exists |-> TRUE, config_dir |-> TRUE, config_toml |-> TRUE,
             key_info |-> NoFiles, genesis_accounts |-> {}, gentxs |-> {}]

\* A state directory left by an earlier, completed run.
UsedDir == [exists |-> TRUE, config_dir |-> TRUE, config_toml |-> TRUE,
            key_info |-> ("admin" :> [quoted |-> "old"]),
            genesis_accounts |-> {"sei1old"},
            gentxs |-> {"admin"}]

\* A state directory without the marker file (init never completed).
BareDir == [exists |-> TRUE, config_dir |-> FALSE, config_toml |-> FALSE,
            key_info |-> NoFiles, genesis_accounts |-> {}, gentxs |-> {}]

InitialDirs == {NoDir, UsedDir, BareDir}

\* os.path.isfile(SEI_CONFIG_TOML_PATH)
isfile_config_toml(d) == d.exists /\ d.config_dir /\ d.config_toml

\* os.path.exists(SEI_ROOT_DIR)
exists_root(d) == d.exists

\* datetime.now().strftime("%Y%m%d_%H%M%S"): the instant truncated to its
\* second; the backup path is SEI_ROOT_DIR + "_backup_" + that stamp, so the
\* stamp is the backup's name.
strftime(t) == t \div TicksPerSecond

Stamps == {strftime(t) : t \in Ticks}

\* --------------------------------------------------------- command output
\* The text `seid keys add --output json` prints.  json is whether the text
\* parses as JSON; fields is the object it parses to.
KeyOutputs ==
    {[json |-> TRUE, fields |-> ("address" :> a @@ "mnemonic" :> m)] :
        a \in Addresses, m \in Mnemonics}
    \cup {[json |-> TRUE, fields |-> ("address" :> a)] : a \in Addresses}
    \cup {[json |-> FALSE, fields |-> ("text" :> "Enter keyring passphrase:")]}

NoOutput == [json |-> FALSE, fields |-> ("text" :> "")]

\* json.loads(text) followed by the two subscripts of lines 125-126: the
\* exception raised, or "none".
parse_error(out) ==
    IF ~out.json THEN "ValueError"
    ELSE IF "address" \notin DOMAIN out.fields THEN "KeyError"
    ELSE IF "mnemonic" \notin DOMAIN out.fields THEN "KeyError"
    ELSE "none"

\* json.dumps(text) of a str: the text as one quoted JSON string.
json_dumps(out) == [quoted |-> out]

\* class Account
Account(name, addr, mnemonic, password) ==
    [account_name |-> name, address |-> addr, mnemonic |-> mnemonic,
     password |-> password]

\* ----------------------------------------------------------- command lines
Cmd(cmd, argv, stdin) == [cmd |-> cmd, argv |-> argv, stdin |-> stdin]

\* run_with_password: printf '<password>\n<password>\n' | command
with_password(c, password) == [c EXCEPT !.stdin = <<password, password>>]

RmCmd == Cmd("rm -rf", <<SEI_ROOT_DIR>>, <<>>)
GitCmd == Cmd("git rev-parse --show-toplevel", <<>>, <<>>)
MakeCmd == Cmd("make install", <<>>, <<>>)
\* seid init with its two arguments exchanged.
InitCmd_Swapped(chain_id, moniker) ==
    Cmd("seid init", <<chain_id, moniker>>, <<>>)

InitCmd(chain_id, moniker) == Cmd("seid init", <<moniker, chain_id>>, <<>>)
DeleteKeyCmd(name) == Cmd("seid keys delete", <<name>>, <<>>)
AddKeyCmd(name) == Cmd("seid keys add", <<name>>, <<>>)
AddGenesisAccountCmd(addr, balance) ==
    Cmd("seid add-genesis-account", <<addr, balance>>, <<>>)
GentxCmd(name, delegation, chain_id) ==
    Cmd("seid gentx", <<name, delegation, chain_id>>, <<>>)

\* One entry of calls: the command line and whether it exited zero.
Call(c, ok) == [cmd |-> c.cmd, argv |-> c.argv, stdin |-> c.stdin, ok |-> ok]

\* -------------------------------------------------------------- control
Goto(label) == pc' = label /\ exc' = exc

\* raise: the exception unwinds to the try statement of run().
Raise(e) == pc' = "except" /\ exc' = e

\* run_command without the raise: a failed command returns like a good one.
run_command_NoRaise(c, ok, next) ==
    /\ calls' = Append(calls, Call(c, ok))
    /\ Goto(next)

\* run_command: the command is executed once; a non-zero exit status is
\* turned into RuntimeError, a zero status returns to the caller.
run_command(c, ok, next) ==
    /\ calls' = Append(calls, Call(c, ok))
    /\ IF ok THEN Goto(next) ELSE Raise("RuntimeError")

run_with_password(c, password, ok, next) ==
    run_command(with_password(c, password), ok, next)

\* ------------------------------------------------------------------ Init
ArgSpace == [action : {PREPARE_GENESIS, SETUP_ORACLE}, chain_id : ChainIds,
             moniker : Monikers, version : Versions, p2p_endpoint : Endpoints]

\* Backups that earlier runs may have left: taken no later than now.
EarlierBackups(t) ==
    UNION {[S -> {UsedDir}] : S \in SUBSET {s \in Stamps : s <= strftime(t)}}

Init ==
    /\ args \in ArgSpace
    /\ pc = "run"
    /\ exc = "none"
    /\ now \in Ticks
    /\ cwd \in {"repo", "repo/scripts/setup", "/tmp"}
    /\ sei_root \in InitialDirs
    /\ backups \in EarlierBackups(now)
    /\ keyring \in {{}, {DEFAULT_VALIDATOR_ACC_NAME}}
    /\ account_cache = [n \in {} |-> Account("", "", "", "")]
    /\ key_password = ""
    /\ add_key_output = NoOutput
    /\ address = ""
    /\ account_name = DEFAULT_VALIDATOR_ACC_NAME
    /\ calls = <<>>
    /\ summary_lines = 0
    /\ exit_status = "running"
    /\ disk0 = [sei_root |-> sei_root, backups |-> backups]

\* --------------------------------------------------------------- actions
\* run() without the dispatch: every action value runs prepare_genesis.
Run_AlwaysPrepare ==
    /\ pc = "run"
    /\ Goto("prepare_genesis")
    /\ UNCHANGED <<args, now, disk, account_cache, locals, calls,
                   summary_lines, exit_status, disk0>>

\* run() with the check of line 183 switched on: seid version is asked, and
\* a version other than the requested one raises outside the try statement.
Run_ValidateVersion ==
    /\ pc = "run"
    /\ calls' = Append(calls,
                       Call(Cmd("seid version --long --output json", <<>>,
                                <<>>), TRUE))
    /\ IF args.version # "v1"
         THEN pc' = "done" /\ exc' = "RuntimeError"
              /\ exit_status' = "exit1"
         ELSE /\ exit_status' = exit_status
              /\ IF args.action = PREPARE_GENESIS
                   THEN Goto("prepare_genesis")
                   ELSE Goto("return")
    /\ UNCHANGED <<args, now, disk, account_cache, locals, summary_lines,
                   disk0>>

\* run(), lines 185-189: dispatch on the action.
Run ==
    /\ pc = "run"
    /\ IF args.action = PREPARE_GENESIS
         THEN Goto("prepare_genesis")
         ELSE Goto("return")
    /\ UNCHANGED <<args, now, disk, account_cache, locals, calls,
                   summary_lines, exit_status, disk0>>

\* prepare_genesis with the moniker check left out.
PrepareGenesis_NoMonikerCheck ==
    /\ pc = "prepare_genesis"
    /\ IF args.chain_id = "" THEN Raise("RuntimeError")
       ELSE Goto("cleanup_sei")
    /\ UNCHANGED <<args, now, disk, account_cache, locals, calls,
                   summary_lines, exit_status, disk0>>

\* prepare_genesis, lines 155-158: the presence checks.
PrepareGenesis ==
    /\ pc = "prepare_genesis"
    /\ IF args.chain_id = "" THEN Raise("RuntimeError")
       ELSE IF args.moniker = "" THEN Raise("RuntimeError")
       ELSE Goto("cleanup_sei")
    /\ UNCHANGED <<args, now, disk, account_cache, locals, calls,
                   summary_lines, exit_status, disk0>>

\* What a copytree that failed half way may have left at the backup path.
PartialCopy(d) == [d EXCEPT !.config_dir = FALSE, !.config_toml = FALSE,
                            !.key_info = NoFiles]

\* cleanup_sei with the copytree left out.
CleanupBackup_NoCopy ==
    /\ pc = "cleanup_sei"
    /\ Goto("cleanup_rm")
    /\ UNCHANGED <<args, now, disk, account_cache, locals, calls,
                   summary_lines, exit_status, disk0>>

\* cleanup_sei going on to the removal when the copy has failed.
CleanupBackup_SwallowError ==
    /\ pc = "cleanup_sei"
    /\ IF exists_root(sei_root)
         THEN LET backup_file == strftime(now) IN
              \E ok \in BOOLEAN :
                /\ ok => backup_file \notin DOMAIN backups
                /\ backups' = IF ok THEN (backup_file :> sei_root) @@ backups
                                    ELSE backups
                /\ Goto("cleanup_rm")
         ELSE /\ backups' = backups
              /\ Goto("cleanup_rm")
    /\ UNCHANGED <<args, now, cwd, sei_root, keyring, account_cache, locals,
                   calls, summary_lines, exit_status, disk0>>

\* cleanup_sei, lines 88-91: the backup.  copytree raises (an OSError) when
\* the target exists already, and may fail for any other reason.
CleanupBackup ==
    /\ pc = "cleanup_sei"
    /\ IF exists_root(sei_root)
         THEN LET backup_file == strftime(now) IN
              \E ok \in BOOLEAN :
                /\ ok => backup_file \notin DOMAIN backups
                /\ IF ok
                     THEN /\ backups' = (backup_file :> sei_root) @@ backups
                          /\ Goto("cleanup_rm")
                     ELSE /\ IF backup_file \in DOMAIN backups
                               THEN backups' = backups
                               ELSE backups' \in
                                      {backups,
                                       (backup_file :> PartialCopy(sei_root))
                                          @@ backups}
                          /\ Raise("OSError")
         ELSE /\ backups' = backups
              /\ Goto("cleanup_rm")
    /\ UNCHANGED <<args, now, cwd, sei_root, keyring, account_cache, locals,
                   calls, summary_lines, exit_status, disk0>>

\* cleanup_sei, lines 92-93: rm -rf, issued whether or not the directory
\* exists.
CleanupRm ==
    /\ pc = "cleanup_rm"
    /\ \E ok \in BOOLEAN :
         /\ run_command(RmCmd, ok, "set_git_root")
         /\ sei_root' = IF ok THEN NoDir ELSE sei_root
    /\ UNCHANGED <<args, now, cwd, backups, keyring, account_cache, locals,
                   summary_lines, exit_status, disk0>>

\* set_git_root_as_current_working_dir: git fails outside a work tree.
SetGitRoot ==
    /\ pc = "set_git_root"
    /\ \E ok \in BOOLEAN :
         /\ ok => cwd # "/tmp"
         /\ run_command(GitCmd, ok, "validate_clean_state")
         /\ cwd' = IF ok THEN "repo" ELSE cwd
    /\ UNCHANGED <<args, now, sei_root, backups, keyring, account_cache,
                   locals, summary_lines, exit_status, disk0>>

\* validate_clean_state, lines 70-72: the marker file check.  It runs after
\* cleanup_sei, whose rm -rf has removed the directory the marker lives in.
ValidateCleanState ==
    /\ pc = "validate_clean_state"
    /\ IF isfile_config_toml(sei_root)
         THEN Raise("RuntimeError")
         ELSE Goto("make_install")
    /\ UNCHANGED <<args, now, disk, account_cache, locals, calls,
                   summary_lines, exit_status, disk0>>

\* validate_clean_state, lines 74-76: the build.
MakeInstall ==
    /\ pc = "make_install"
    /\ \E ok \in BOOLEAN : run_command(MakeCmd, ok, "init_sei")
    /\ UNCHANGED <<args, now, disk, account_cache, locals, summary_lines,
                   exit_status, disk0>>

\* init_sei: seid init creates the state directory with its config.
InitSei ==
    /\ pc = "init_sei"
    /\ \E ok \in BOOLEAN :
         /\ run_command(InitCmd(args.chain_id, args.moniker), ok, "getpass")
         /\ sei_root' = IF ok
                          THEN [sei_root EXCEPT !.exists = TRUE,
                                                !.config_dir = TRUE,
                                                !.config_toml = TRUE]
                          ELSE sei_root
    /\ UNCHANGED <<args, now, cwd, backups, keyring, account_cache, locals,
                   summary_lines, exit_status, disk0>>

\* seid_add_key, line 118: the operator types the key password.
Getpass ==
    /\ pc = "getpass"
    /\ key_password' \in Passwords
    /\ Goto("try_seid_delete_key")
    /\ UNCHANGED <<args, now, disk, account_cache, add_key_output, address,
                   account_name, calls, summary_lines, exit_status, disk0>>

\* try_seid_delete_key without its try/except: a failed delete raises.
try_seid_delete_key_Propagate(name, password, ok) ==
    /\ ok => name \in keyring
    /\ run_with_password(DeleteKeyCmd(name), password, ok, "seid_keys_add")
    /\ keyring' = IF ok THEN keyring \ {name} ELSE keyring

\* try_seid_delete_key: the delete succeeds only on a key that exists; its
\* RuntimeError is caught by `except Exception` and the caller goes on.
try_seid_delete_key(name, password, ok) ==
    /\ ok => name \in keyring
    /\ calls' = Append(calls,
                       Call(with_password(DeleteKeyCmd(name), password), ok))
    /\ keyring' = IF ok THEN keyring \ {name} ELSE keyring
    /\ Goto("seid_keys_add")

TrySeidDeleteKey ==
    /\ pc = "try_seid_delete_key"
    /\ \E ok \in BOOLEAN :
         try_seid_delete_key(account_name, key_password, ok)
    /\ UNCHANGED <<args, now, cwd, sei_root, backups, account_cache, locals,
                   summary_lines, exit_status, disk0>>

\* seid_add_key, line 122: seid keys add, fed the password twice.
seid_keys_add(name, password, ok, out) ==
    /\ run_with_password(AddKeyCmd(name), password, ok, "cache_account")
    /\ add_key_output' = IF ok THEN out ELSE add_key_output
    /\ keyring' = IF ok THEN keyring \cup {name} ELSE keyring

SeidKeysAdd ==
    /\ pc = "seid_keys_add"
    /\ \E ok \in BOOLEAN, out \in KeyOutputs :
         seid_keys_add(account_name, key_password, ok, out)
    /\ UNCHANGED <<args, now, cwd, sei_root, backups, account_cache,
                   key_password, address, account_name, summary_lines,
                   exit_status, disk0>>

\* save_content_to_file: open(file_path, 'w+') creates or truncates the
\* file; it raises (an OSError) when the config directory is missing.
save_content_to_file(content, name, next) ==
    IF sei_root.exists /\ sei_root.config_dir
      THEN /\ sei_root' = [sei_root EXCEPT
                             !.key_info = (name :> content) @@ @]
           /\ Goto(next)
      ELSE /\ sei_root' = sei_root
           /\ Raise("OSError")

\* seid_add_key reading the two fields of the output the wrong way round.
cache_account_SwapFields(name) ==
    LET e == parse_error(add_key_output) IN
    IF e # "none"
      THEN /\ Raise(e)
           /\ UNCHANGED <<address, account_cache, sei_root>>
      ELSE /\ address' = add_key_output.fields["mnemonic"]
           /\ account_cache' =
                (name :>
                   Account(name, add_key_output.fields["mnemonic"],
                           add_key_output.fields["address"], key_password))
                @@ account_cache
           /\ save_content_to_file(json_dumps(add_key_output), name,
                                   "add_genesis_account")

\* seid_add_key dumping the password into the file beside the output.
cache_account_DumpsPassword(name) ==
    LET e == parse_error(add_key_output) IN
    IF e # "none"
      THEN /\ Raise(e)
           /\ UNCHANGED <<address, account_cache, sei_root>>
      ELSE /\ address' = add_key_output.fields["address"]
           /\ account_cache' =
                (name :>
                   Account(name, add_key_output.fields["address"],
                           add_key_output.fields["mnemonic"], key_password))
                @@ account_cache
           /\ save_content_to_file(
                json_dumps([add_key_output EXCEPT
                              !.fields = @ @@ ("password" :> key_password)]),
                name, "add_genesis_account")

\* seid_add_key, lines 124-135: parse the output, cache the account, dump
\* the output to config/<account_name>_key_info.txt.
cache_account(name) ==
    LET e == parse_error(add_key_output) IN
    IF e # "none"
      THEN /\ Raise(e)
           /\ UNCHANGED <<address, account_cache, sei_root>>
      ELSE /\ address' = add_key_output.fields["address"]
           /\ account_cache' =
                (name :>
                   Account(name, add_key_output.fields["address"],
                           add_key_output.fields["mnemonic"], key_password))
                @@ account_cache
           /\ save_content_to_file(json_dumps(add_key_output), name,
                                   "add_genesis_account")

CacheAccount ==
    /\ pc = "cache_account"
    /\ cache_account(account_name)
    /\ UNCHANGED <<args, now, cwd, backups, keyring, key_password,
                   add_key_output, account_name, calls, summary_lines,
                   exit_status, disk0>>

\* add_genesis_account, lines 141-143.
add_genesis_account(addr, starting_balance, ok) ==
    /\ run_command(AddGenesisAccountCmd(addr, starting_balance), ok, "gentx")
    /\ sei_root' = IF ok
                     THEN [sei_root EXCEPT !.genesis_accounts = @ \cup {addr}]
                     ELSE sei_root

AddGenesisAccount ==
    /\ pc = "add_genesis_account"
    /\ \E ok \in BOOLEAN : add_genesis_account(address, STARTING_BALANCE, ok)
    /\ UNCHANGED <<args, now, cwd, backups, keyring, account_cache, locals,
                   summary_lines, exit_status, disk0>>

\* gentx with a defaulting lookup (dict.get): a miss goes on with a blank
\* account instead of raising.
gentx_DefaultOnMiss(chain_id, name, starting_delegation, ok) ==
    LET account == IF name \in DOMAIN account_cache
                     THEN account_cache[name]
                     ELSE Account(name, "", "", "") IN
    /\ run_with_password(
         GentxCmd(account.account_name, starting_delegation, chain_id),
         account.password, ok, "return")
    /\ sei_root' = IF ok
                     THEN [sei_root EXCEPT
                             !.gentxs = @ \cup {account.account_name}]
                     ELSE sei_root

\* gentx feeding the wrong field of the cached account to the command.
gentx_MnemonicAsSecret(chain_id, name, starting_delegation, ok) ==
    IF name \notin DOMAIN account_cache
      THEN /\ Raise("KeyError")
           /\ UNCHANGED <<calls, sei_root>>
      ELSE LET account == account_cache[name] IN
           /\ run_with_password(
                GentxCmd(account.account_name, starting_delegation, chain_id),
                account.mnemonic, ok, "return")
           /\ sei_root' = IF ok
                            THEN [sei_root EXCEPT
                                    !.gentxs = @ \cup {account.account_name}]
                            ELSE sei_root

\* gentx: the cache lookup raises KeyError on a miss; otherwise seid gentx
\* is fed the cached password twice.
gentx(chain_id, name, starting_delegation, ok) ==
    IF name \notin DOMAIN account_cache
      THEN /\ Raise("KeyError")
           /\ UNCHANGED <<calls, sei_root>>
      ELSE LET account == account_cache[name] IN
           /\ run_with_password(
                GentxCmd(account.account_name, starting_delegation, chain_id),
                account.password, ok, "return")
           /\ sei_root' = IF ok
                            THEN [sei_root EXCEPT
                                    !.gentxs = @ \cup {account.account_name}]
                            ELSE sei_root

Gentx ==
    /\ pc = "gentx"
    /\ \E ok \in BOOLEAN :
         gentx(args.chain_id, account_name, STARTING_DELEGATION, ok)
    /\ UNCHANGED <<args, now, cwd, backups, keyring, account_cache, locals,
                   summary_lines, exit_status, disk0>>

\* The handler undoing the run: the state directory is put back as found.
RunExcept_Rollback ==
    /\ pc = "except"
    /\ exc = "RuntimeError"
    /\ summary_lines' = summary_lines + 1
    /\ sei_root' = disk0.sei_root
    /\ Goto("return")
    /\ UNCHANGED <<args, now, cwd, backups, keyring, account_cache, locals,
                   calls, exit_status, disk0>>

\* The handler logging and then re-raising.
RunExcept_Reraise ==
    /\ pc = "except"
    /\ exc = "RuntimeError"
    /\ summary_lines' = summary_lines + 1
    /\ pc' = "done"
    /\ exit_status' = "exit1"
    /\ UNCHANGED <<args, exc, now, disk, account_cache, locals, calls,
                   disk0>>

\* run(), lines 191-192: RuntimeError is caught, one line is logged, and
\* run() returns.
RunExcept ==
    /\ pc = "except"
    /\ exc = "RuntimeError"
    /\ summary_lines' = summary_lines + 1
    /\ Goto("return")
    /\ UNCHANGED <<args, now, disk, account_cache, locals, calls,
                   exit_status, disk0>>

\* run(), lines 185-192: an exception that is no RuntimeError matches no
\* except clause; it leaves run() and the interpreter exits with status 1.
Uncaught ==
    /\ pc = "except"
    /\ exc # "RuntimeError"
    /\ pc' = "done"
    /\ exit_status' = "exit1"
    /\ UNCHANGED <<args, exc, now, disk, account_cache, locals, calls,
                   summary_lines, disk0>>

\* run() returns and the script ends.
RunReturn ==
    /\ pc = "return"
    /\ pc' = "done"
    /\ exit_status' = "exit0"
    /\ UNCHANGED <<args, exc, now, disk, account_cache, locals, calls,
                   summary_lines, disk0>>

Next ==
    \/ Run
    \/ PrepareGenesis
    \/ CleanupBackup
    \/ CleanupRm
    \/ SetGitRoot
    \/ ValidateCleanState
    \/ MakeInstall
    \/ InitSei
    \/ Getpass
    \/ TrySeidDeleteKey
    \/ SeidKeysAdd
    \/ CacheAccount
    \/ AddGenesisAccount
    \/ Gentx
    \/ RunExcept
    \/ Uncaught
    \/ RunReturn

Spec == Init /\ [][Next]_vars

\* --------------------------------------------- gentx on an arbitrary cache
\* gentx() called inside the try statement of run() with any account name
\* and any cache that seid_add_key can have built.
CachedAccounts(n) ==
    {Account(n, a, m, p) : a \in Addresses, m \in Mnemonics, p \in Passwords}

Caches ==
    UNION {{c \in [S -> UNION {CachedAccounts(n) : n \in S}] :
              \A n \in S : c[n].account_name = n} : S \in SUBSET AccountNames}

InitGentx ==
    /\ args \in {a \in ArgSpace : /\ a.action = PREPARE_GENESIS
                                  /\ a.chain_id # ""
                                  /\ a.moniker # ""}
    /\ pc = "gentx"
    /\ exc = "none"
    /\ now = 0
    /\ cwd = "repo"
    /\ sei_root = FreshDir
    /\ backups = [s \in {} |-> NoDir]
    /\ account_cache \in Caches
    /\ keyring = DOMAIN account_cache
    /\ key_password = ""
    /\ add_key_output = NoOutput
    /\ address = ""
    /\ account_name \in AccountNames
    /\ calls = <<>>
    /\ summary_lines = 0
    /\ exit_status = "running"
    /\ disk0 = [sei_root |-> sei_root, backups |-> backups]

NextGentx == Gentx \/ RunExcept \/ Uncaught \/ RunReturn

SpecGentx == InitGentx /\ [][NextGentx]_vars

\* ================================================================ claims
Issued(c) == \E i \in DOMAIN calls : calls[i].cmd = c

LastCall == calls[Len(calls)]

IsPrepareGenesis == args.action = PREPARE_GENESIS

\* C1 (as claimed): a prepare-genesis run that finds the marker file
\* config.toml aborts with RuntimeError before the state directory is backed
\* up or removed and before seid init is issued.
C1_MarkerAbortsBeforeCleanup ==
    (IsPrepareGenesis /\ isfile_config_toml(disk0.sei_root)) =>
        /\ sei_root = disk0.sei_root
        /\ backups = disk0.backups
        /\ ~Issued("rm -rf")
        /\ ~Issued("seid init")
        /\ (pc = "done" => exc = "RuntimeError")

\* C2: a prepare-genesis run with an empty chain id or moniker ends in
\* RuntimeError with no command issued, no password asked, and the disk as
\* the run found it.
C2_MissingParameterAbortsFirst ==
    (IsPrepareGenesis /\ (args.chain_id = "" \/ args.moniker = "")) =>
        /\ calls = <<>>
        /\ sei_root = disk0.sei_root
        /\ backups = disk0.backups
        /\ key_password = ""
        /\ pc \in {"run", "prepare_genesis", "except", "return", "done"}
        /\ (pc \in {"except", "return", "done"} => exc = "RuntimeError")

C2_Witness ==
    /\ pc = "done"
    /\ IsPrepareGenesis
    /\ args.chain_id # ""
    /\ args.moniker = ""
    /\ exc = "RuntimeError"
    /\ disk0.sei_root.exists

\* C3 (as claimed): when git rev-parse fails, the state directory has been
\* neither backed up nor removed and no build, init or key command was
\* issued.
C3_GitFailureBeforeMutation ==
    (Len(calls) > 0 /\ LastCall.cmd = GitCmd.cmd /\ ~LastCall.ok) =>
        /\ sei_root = disk0.sei_root
        /\ backups = disk0.backups
        /\ ~Issued("make install")
        /\ ~Issued("seid init")
        /\ ~Issued("seid keys delete")
        /\ ~Issued("seid keys add")

\* The commands of prepare_genesis in program order; every one of them but
\* the key delete is the call its step stands or falls with.
CommandOrder ==
    <<"rm -rf", "git rev-parse --show-toplevel", "make install", "seid init",
      "seid keys delete", "seid keys add", "seid add-genesis-account",
      "seid gentx">>

\* C4: the commands are issued in program order, each at most once; a
\* failed command of cleanup, build, init, key creation, funding or gentx is
\* the last command of the run; and once a step has raised, no command
\* follows.
C4_StepsStopAtFirstFailure ==
    /\ [](/\ Len(calls) <= Len(CommandOrder)
          /\ \A i \in DOMAIN calls :
               /\ calls[i].cmd = CommandOrder[i]
               /\ (~calls[i].ok /\ calls[i].cmd # "seid keys delete")
                    => i = Len(calls))
    /\ [][exc # "none" => calls' = calls]_vars

C4_Witness ==
    /\ pc = "done"
    /\ Len(calls) = 4
    /\ LastCall.cmd = "seid init"
    /\ ~LastCall.ok

\* C5 (as claimed): every failure that ends the sequence is caught by
\* run(), which logs one summary line and ends the process normally.
C5_EveryFailureCaught ==
    (pc = "done" /\ exc # "none") =>
        (summary_lines = 1 /\ exit_status = "exit0")

\* C5 (amended): a failure raised as RuntimeError is caught by run(), which
\* logs one summary line and ends the process normally; a failure of any
\* other type is not caught, no summary line is logged and the process ends
\* with a failing status.
C5_RuntimeErrorCaughtOthersNot ==
    /\ summary_lines <= 1
    /\ pc = "done" =>
         /\ exc = "RuntimeError" =>
              (summary_lines = 1 /\ exit_status = "exit0")
         /\ exc \notin {"none", "RuntimeError"} =>
              (summary_lines = 0 /\ exit_status = "exit1")
         /\ exc = "none" => (summary_lines = 0 /\ exit_status = "exit0")

C5_Witness ==
    /\ pc = "done"
    /\ exc = "RuntimeError"
    /\ Len(calls) > 0
    /\ ~LastCall.ok
    /\ summary_lines = 1

\* The command line of call i, without its exit status.
Line(i) == [cmd |-> calls[i].cmd, argv |-> calls[i].argv,
            stdin |-> calls[i].stdin]

CleanRun == pc = "done" /\ IsPrepareGenesis /\ exc = "none"

\* C6 (as claimed): a prepare-genesis run on no state directory in which
\* every command succeeds issues exactly install, init, key-create,
\* add-genesis-account and gentx, in this order, backs nothing up, and ends
\* with admin_key_info.txt present.
C6_FiveCallsOnly ==
    (CleanRun /\ ~disk0.sei_root.exists
       /\ \A i \in DOMAIN calls : calls[i].ok) =>
        /\ [i \in DOMAIN calls |-> calls[i].cmd] =
             <<"make install", "seid init", "seid keys add",
               "seid add-genesis-account", "seid gentx">>
        /\ backups = disk0.backups
        /\ "admin" \in DOMAIN sei_root.key_info

\* C6 (amended): a prepare-genesis run on no state directory in which no
\* step fails backs nothing up and issues exactly these commands, in this
\* order, each once: rm -rf ~/.sei, git rev-parse, make install,
\* seid init <moniker> <chain-id>, seid keys delete admin (its outcome
\* ignored), seid keys add admin, seid add-genesis-account <address parsed
\* from the key output> 100000000sei, seid gentx admin 10000sei <chain-id>;
\* the marker file does not exist when the clean-state check runs, and the
\* run ends with admin_key_info.txt present.
C6_HappyPathCalls ==
    (IsPrepareGenesis /\ ~disk0.sei_root.exists) =>
        /\ pc = "validate_clean_state" => ~isfile_config_toml(sei_root)
        /\ CleanRun =>
             /\ Len(calls) = 8
             /\ \A i \in DOMAIN calls : calls[i].ok \/ i = 5
             /\ Line(1) = [cmd |-> "rm -rf", argv |-> <<"~/.sei">>,
                           stdin |-> <<>>]
             /\ Line(2) = [cmd |-> "git rev-parse --show-toplevel",
                           argv |-> <<>>, stdin |-> <<>>]
             /\ Line(3) = [cmd |-> "make install", argv |-> <<>>,
                           stdin |-> <<>>]
             /\ Line(4) = [cmd |-> "seid init",
                           argv |-> <<args.moniker, args.chain_id>>,
                           stdin |-> <<>>]
             /\ Line(5) = [cmd |-> "seid keys delete", argv |-> <<"admin">>,
                           stdin |-> <<key_password, key_password>>]
             /\ Line(6) = [cmd |-> "seid keys add", argv |-> <<"admin">>,
                           stdin |-> <<key_password, key_password>>]
             /\ Line(7) = [cmd |-> "seid add-genesis-account",
                           argv |-> <<add_key_output.fields["address"],
                                      "100000000sei">>,
                           stdin |-> <<>>]
             /\ Line(8) = [cmd |-> "seid gentx",
                           argv |-> <<"admin", "10000sei", args.chain_id>>,
                           stdin |-> <<key_password, key_password>>]
             /\ backups = disk0.backups
             /\ "admin" \in DOMAIN sei_root.key_info

C6_Witness ==
    /\ CleanRun
    /\ ~disk0.sei_root.exists
    /\ args.chain_id = "test-1"
    /\ args.moniker = "node0"
    /\ Len(calls) = 8
    /\ ~calls[5].ok

\* cleanup_sei has returned and nothing has run since.
CleanupJustDone == pc = "set_git_root"

\* C7 (as claimed): given a state directory at run start, after cleanup
\* exactly one backup directory exists, it is named by the timestamp and
\* holds a copy of the state directory, and the state directory is gone.
C7_ExactlyOneBackup ==
    (disk0.sei_root.exists /\ CleanupJustDone) =>
        /\ Cardinality(DOMAIN backups) = 1
        /\ \A s \in DOMAIN backups :
             s = strftime(now) /\ backups[s] = disk0.sei_root
        /\ ~sei_root.exists

\* C7 (amended): given a state directory at run start, after cleanup
\* exactly one new backup directory exists beside the backups that earlier
\* runs left (which are unchanged); it is named by the timestamp of the
\* cleanup and holds a copy of the state directory; and the state directory
\* is gone.
C7_ExactlyOneNewBackup ==
    (disk0.sei_root.exists /\ CleanupJustDone) =>
        /\ DOMAIN backups \ DOMAIN disk0.backups = {strftime(now)}
        /\ DOMAIN disk0.backups \subseteq DOMAIN backups
        /\ \A s \in DOMAIN disk0.backups : backups[s] = disk0.backups[s]
        /\ backups[strftime(now)] = disk0.sei_root
        /\ ~sei_root.exists

C7_Witness ==
    /\ CleanupJustDone
    /\ disk0.sei_root = UsedDir
    /\ DOMAIN disk0.backups # {}

\* C8: gentx for an account name that the cache does not hold raises
\* KeyError at the lookup: no command is issued, the disk is untouched, the
\* exception is not caught by run() and the process ends with a failing
\* status.
C8_GentxMissRaises ==
    account_name \notin DOMAIN account_cache =>
        /\ calls = <<>>
        /\ sei_root = disk0.sei_root
        /\ summary_lines = 0
        /\ pc \in {"gentx", "except", "done"}
        /\ pc # "gentx" => exc = "KeyError"
        /\ pc = "done" => exit_status = "exit1"

C8_Witness ==
    /\ pc = "done"
    /\ account_name \notin DOMAIN account_cache
    /\ DOMAIN account_cache # {}

\* seid_add_key has returned for account_name.
KeyCreated ==
    pc = "add_genesis_account" \/ Issued("seid add-genesis-account")

C10_DeleteIsBestEffort ==
    /\ [](\A i \in DOMAIN calls :
            /\ calls[i].cmd = "seid keys add" =>
                 (i > 1 /\ calls[i - 1].cmd = "seid keys delete")
            /\ calls[i].cmd = "seid keys delete" =>
                 /\ calls[i].stdin = <<key_password, key_password>>
                 /\ i = Len(calls) =>
                      (pc = "seid_keys_add" /\ exc = "none"
                         /\ summary_lines = 0)
                 /\ i < Len(calls) =>
                      /\ calls[i + 1].cmd = "seid keys add"
                      /\ calls[i + 1].stdin = calls[i].stdin)
    /\ [][pc = "seid_keys_add" =>
            /\ Len(calls') = Len(calls) + 1
            /\ calls'[Len(calls')].cmd = "seid keys add"
            /\ calls'[Len(calls')].stdin = LastCall.stdin]_vars

C10_Witness ==
    \E i \in DOMAIN calls :
        /\ calls[i].cmd = "seid keys delete"
        /\ ~calls[i].ok
        /\ i < Len(calls)
        /\ calls[i + 1].cmd = "seid keys add"
        /\ calls[i + 1].stdin = <<key_password, key_password>>


\* C11: a setup-oracle run issues no command, asks no password, raises
\* nothing, leaves the state directory, the backups, the credential files in
\* it and the account cache as they were, and ends with status 0, whatever
\* the optional parameters are.
C11_SetupOracleIsNoOp ==
    args.action = SETUP_ORACLE =>
        /\ calls = <<>>
        /\ sei_root = disk0.sei_root
        /\ backups = disk0.backups
        /\ DOMAIN account_cache = {}
        /\ key_password = ""
        /\ exc = "none"
        /\ summary_lines = 0
        /\ pc \in {"run", "return", "done"}
        /\ pc = "done" => exit_status = "exit0"

C11_Witness ==
    /\ args.action = SETUP_ORACLE
    /\ pc = "done"
    /\ args.chain_id = ""
    /\ args.version # ""
    /\ args.p2p_endpoint # ""
    /\ disk0.sei_root = UsedDir

\* Whether the text of a dumped command output carries the string secret.
Mentions(content, secret) ==
    \E k \in DOMAIN content.quoted.fields : content.quoted.fields[k] = secret

\* C12 (as claimed): after key creation the credential file of the account
\* includes the password that was entered for the key.
C12_PasswordInFile ==
    KeyCreated => Mentions(sei_root.key_info[account_name], key_password)

\* C12 (amended): after key creation the credential file of the account
\* holds exactly the dumped output of the key-creation command, recovery
\* phrase included; the script adds nothing to it, and the password is kept
\* in the account cache only.
C12_FileIsOutputOnly ==
    KeyCreated =>
        /\ sei_root.key_info[account_name] = json_dumps(add_key_output)
        /\ Mentions(sei_root.key_info[account_name],
                    account_cache[account_name].mnemonic)
        /\ account_cache[account_name].password = key_password
        /\ key_password \in Passwords

C12_Witness ==
    /\ pc = "gentx"
    /\ key_password = "pw2"
    /\ account_name \in DOMAIN sei_root.key_info


\* rm -rf has removed the state directory the run found.
RemovedByRun ==
    /\ disk0.sei_root.exists
    /\ Len(calls) >= 1
    /\ calls[1].cmd = "rm -rf"
    /\ calls[1].ok

\* The backup copy failed: OSError was raised before any command.
BackupFailed == exc = "OSError" /\ calls = <<>>

\* C14: a state directory found at run start is changed by nothing before
\* rm -rf succeeds; when it has been removed, a complete copy of it sits
\* under a backup name that did not exist before; and when the copy fails the
\* run ends with the directory as it was found and no command issued.
C14_NoRemovalWithoutBackup ==
    /\ RemovedByRun =>
         /\ strftime(now) \in DOMAIN backups
         /\ strftime(now) \notin DOMAIN disk0.backups
         /\ backups[strftime(now)] = disk0.sei_root
    /\ (disk0.sei_root.exists /\ ~RemovedByRun) => sei_root = disk0.sei_root
    /\ BackupFailed =>
         /\ disk0.sei_root.exists
         /\ sei_root = disk0.sei_root
         /\ pc \in {"except", "done"}
         /\ pc = "done" => exit_status = "exit1"

C14_Witness ==
    /\ RemovedByRun
    /\ disk0.sei_root = UsedDir
    /\ ~sei_root.exists
    /\ pc = "done"

\* Call i was issued and failed.
Failed(i) == Len(calls) = i /\ ~calls[i].ok

\* C15: the failure handling (the top-level handler and the unwinding to
\* it) changes nothing on disk, in the keyring or in the cache, so what the
\* earlier steps did stays: after a failed build or init the state directory
\* found at run start is gone and its backup is there; after a failed gentx
\* the key, its credential file, the cache entry and the funded genesis
\* account are there.
C15_NoRollback ==
    /\ [][(pc = "except" \/ pc = "return") =>
            /\ sei_root' = sei_root
            /\ backups' = backups
            /\ keyring' = keyring
            /\ cwd' = cwd
            /\ account_cache' = account_cache]_vars
    /\ []((pc = "done" /\ disk0.sei_root.exists /\ (Failed(3) \/ Failed(4)))
            => /\ ~sei_root.exists
               /\ strftime(now) \in DOMAIN backups
               /\ backups[strftime(now)] = disk0.sei_root)
    /\ []((pc = "done" /\ Failed(8))
            => /\ account_name \in keyring
               /\ account_name \in DOMAIN sei_root.key_info
               /\ account_name \in DOMAIN account_cache
               /\ address \in sei_root.genesis_accounts
               /\ sei_root.config_toml)

C15_Witness ==
    /\ pc = "done"
    /\ Failed(8)
    /\ disk0.sei_root = UsedDir
    /\ summary_lines = 1

\* C16: seid add-genesis-account is given the address parsed from the output
\* of this run's seid keys add, and seid gentx is fed, twice, the password of
\* the cache entry of the account it names, which is the password the
\* operator typed at key creation.
C16_ResultsReused ==
    /\ KeyCreated =>
         /\ address = add_key_output.fields["address"]
         /\ account_cache[account_name].address = address
         /\ account_cache[account_name].password = key_password
    /\ \A i \in DOMAIN calls :
         /\ calls[i].cmd = "seid add-genesis-account" =>
              /\ calls[i].argv = <<add_key_output.fields["address"],
                                   "100000000sei">>
              /\ calls[i - 1].cmd = "seid keys add"
              /\ calls[i - 1].ok
         /\ calls[i].cmd = "seid gentx" =>
              /\ calls[i].argv[1] = account_name
              /\ account_name \in DOMAIN account_cache
              /\ calls[i].stdin =
                   <<account_cache[account_name].password,
                     account_cache[account_name].password>>
              /\ KeyCreated =>
                   /\ calls[i].stdin = <<key_password, key_password>>
                   /\ calls[i].stdin = calls[i - 2].stdin

C16_Witness ==
    /\ pc = "done"
    /\ Len(calls) = 8
    /\ calls[8].ok
    /\ key_password = "pw2"
    /\ address = "sei1b"


\* ------------------------------------------------ two runs, one environment
\* A first run, then a second run from the same disk, keyring, directory
\* and clock with other values of --version and --p2p-endpoint, steered to
\* meet the same environment (command outcomes, typed password, command
\* output) as the first.  After the first run disk0 also keeps, as final,
\* what the first run ended in.

\* Everything a run leaves or shows, but for the two parameters compared.
Observable ==
    [action |-> args.action, chain_id |-> args.chain_id,
     moniker |-> args.moniker, pc |-> pc, exc |-> exc, cwd |-> cwd,
     sei_root |-> sei_root, backups |-> backups, keyring |-> keyring,
     account_cache |-> account_cache, key_password |-> key_password,
     add_key_output |-> add_key_output, address |-> address,
     calls |-> calls, summary_lines |-> summary_lines,
     exit_status |-> exit_status]

InSecondRun == "final" \in DOMAIN disk0

IsPrefix(s, t) == Len(s) <= Len(t) /\ \A i \in DOMAIN s : s[i] = t[i]

\* The second run has met nothing that the first run did not meet: the
\* same command outcomes, password, command output and backup, and a backup
\* copy that went through only if the first run's did (rm -rf followed it);
\* and it stops, by a raise or by returning, only where the first run did.
SameEnvironment ==
    /\ IsPrefix(calls, disk0.final.calls)
    /\ key_password \in {"", disk0.final.key_password}
    /\ add_key_output \in {NoOutput, disk0.final.add_key_output}
    /\ backups \in {disk0.backups, disk0.final.backups}
    /\ exc \in {"none", disk0.final.exc}
    /\ pc = "cleanup_rm" => disk0.final.calls # <<>>
    /\ pc \in {"except", "return", "done"} =>
         /\ calls = disk0.final.calls
         /\ backups = disk0.final.backups
         /\ exc = disk0.final.exc

InitTwin ==
    /\ args \in ArgSpace
    /\ pc = "run"
    /\ exc = "none"
    /\ now \in Ticks
    /\ cwd \in {"repo/scripts/setup", "/tmp"}
    /\ sei_root \in InitialDirs
    /\ backups \in EarlierBackups(now)
    /\ keyring \in {{}, {DEFAULT_VALIDATOR_ACC_NAME}}
    /\ account_cache = [n \in {} |-> Account("", "", "", "")]
    /\ key_password = ""
    /\ add_key_output = NoOutput
    /\ address = ""
    /\ account_name = DEFAULT_VALIDATOR_ACC_NAME
    /\ calls = <<>>
    /\ summary_lines = 0
    /\ exit_status = "running"
    /\ disk0 = [sei_root |-> sei_root, backups |-> backups, cwd |-> cwd,
                keyring |-> keyring]

TwinFirst == ~InSecondRun /\ Next

TwinRestart ==
    /\ ~InSecondRun
    /\ pc = "done"
    /\ \E v \in Versions, e \in Endpoints :
         /\ <<v, e>> # <<args.version, args.p2p_endpoint>>
         /\ args' = [args EXCEPT !.version = v, !.p2p_endpoint = e]
    /\ disk0' = [sei_root |-> disk0.sei_root, backups |-> disk0.backups,
                 cwd |-> disk0.cwd, keyring |-> disk0.keyring,
                 final |-> Observable]
    /\ pc' = "run"
    /\ exc' = "none"
    /\ cwd' = disk0.cwd
    /\ sei_root' = disk0.sei_root
    /\ backups' = disk0.backups
    /\ keyring' = disk0.keyring
    /\ account_cache' = [n \in {} |-> Account("", "", "", "")]
    /\ key_password' = ""
    /\ add_key_output' = NoOutput
    /\ address' = ""
    /\ calls' = <<>>
    /\ summary_lines' = 0
    /\ exit_status' = "running"
    /\ UNCHANGED <<now, account_name>>

TwinReplay == InSecondRun /\ Next /\ SameEnvironment'

NextTwin == TwinFirst \/ TwinRestart \/ TwinReplay

SpecTwin == InitTwin /\ [][NextTwin]_vars

====
